---- MODULE Spec2Model ----
(***************************************************************************)
(* A model of lambda_dd_metrics.py: the DataDogMetrics emitter and the     *)
(* AggregatedDataDogMetrics aggregator (recording calls, the lazy flush    *)
(* generator, flush_all and __del__).                                      *)
(*                                                                         *)
(* Python dicts are sequences of <<key, value>> pairs in insertion order;  *)
(* a dict iterator is a position plus the size the dict had when the       *)
(* iterator was made.  Numbers are records [t, v]: t is the Python type    *)
(* and v the value in quarters (v = 9 is 2.25), so that int, float and     *)
(* Decimal arithmetic on the modelled values is exact.  tags=None is the   *)
(* empty sequence: every path of the code treats the two alike.            *)
(***************************************************************************)
EXTENDS Integers, Sequences, FiniteSets, TLC

VARIABLES
    counts,         \* self._counts        name -> tag set -> number
    gauges,         \* self._gauges        name -> tag set -> value
    histograms,     \* self._histograms    name -> tag set -> list of samples
    sets,           \* self._sets          name -> tag set -> set of members
    tag_orderings,  \* self.tag_orderings  name -> tag set -> tags as supplied
    default_tags,   \* self.default_tags
    out,            \* lines printed since the most recent drain began
    log,            \* logger.info records since the most recent drain began
    gen,            \* the generator object returned by flush()
    alive,          \* FALSE once __del__ has run
    last,           \* the most recent call: its name, arguments and outcome
    recorded,       \* observations accepted since the most recent drain began
    lastTags,       \* (name, tag set) -> tags of the last accepted call on it
    drained,        \* what was recorded when the most recent drain began
    buffered,       \* the buckets the mappings held when that drain began
    sent,           \* bucket -> lines printed for it while it stayed buffered
    nops,           \* recording calls made so far
    ndrains         \* drains begun so far

vars == <<counts, gauges, histograms, sets, tag_orderings, default_tags, out,
          log, gen, alive, last, recorded, lastTags, drained, buffered, sent,
          nops, ndrains>>

\* ------------------------------------------------------------------ bounds

\* recording calls in a run of Spec, of SpecKinds, of SpecGroup, of
\* SpecEmitter and of SpecAbandon
MaxOps == 2
\* recording calls in a run of SpecCounter, of SpecGauge and of SpecMidDrain
MaxCalls == 3
\* drains begun in a run
MaxDrains == 2

\* ------------------------------------------------------------- Python dicts

Range(s) == {s[i] : i \in DOMAIN s}

DHas(d, k) == \E i \in DOMAIN d : d[i][1] = k

DGet(d, k) == d[CHOOSE i \in DOMAIN d : d[i][1] = k][2]

DPut(d, k, v) ==
    IF DHas(d, k)
    THEN [i \in DOMAIN d |-> IF d[i][1] = k THEN <<k, v>> ELSE d[i]]
    ELSE Append(d, <<k, v>>)

\* defaultdict.__getitem__: a missing key is inserted with the default value
DMissing(d, k, zero) == IF DHas(d, k) THEN d ELSE Append(d, <<k, zero>>)

\* A variant that leaves k2 as the only key of the entry k1.
DPut2Alone(d, k1, k2, v) == DPut(d, k1, <<<<k2, v>>>>)

\* d[k1][k2] = v on a dict of dicts whose entry k1 exists
DPut2(d, k1, k2, v) == DPut(d, k1, DPut(DGet(d, k1), k2, v))

\* ----------------------------------------------------------- Python numbers

Num(t, v) == [t |-> t, v |-> v]

IntZero == Num("int", 0)

\* x + y raises TypeError for float with Decimal, and for None with anything
CanAdd(x, y) ==
    /\ {x.t, y.t} # {"float", "Decimal"}
    /\ "NoneType" \notin {x.t, y.t}

SumType(x, y) ==
    IF "Decimal" \in {x.t, y.t} THEN "Decimal"
    ELSE IF "float" \in {x.t, y.t} THEN "float"
    ELSE "int"

PyAdd(x, y) == Num(SumType(x, y), x.v + y.v)

\* int(x) truncates toward zero; v is in quarters
Trunc(v) == IF v >= 0 THEN (v \div 4) * 4 ELSE 0 - (((0 - v) \div 4) * 4)

\* type(count)(x): NoneType takes no arguments
CanCast(t, x) == t # "NoneType"

\* A variant that goes through int() whatever the type asked for.
PyCastViaInt(t, x) == Num(t, Trunc(x.v))

PyCast(t, x) == Num(t, IF t = "int" THEN Trunc(x.v) ELSE x.v)

\* ------------------------------------------------------------- the emitter

service_prefix == "test"

build_metric_name(metric_name) == <<service_prefix, metric_name>>

\* A variant that puts the default tags first.
build_tagsDefaultFirst(dflt, tags) == dflt \o tags

\* tags_type(itertools.chain(tags or (), self.default_tags))
build_tags(dflt, tags) == tags \o dflt

\* The line _print_metric builds: value, kind, name and, when there are
\* tags, the tag suffix.
print_metric(dflt, metric_type, metric_name, value, tags) ==
    [value |-> value,
     kind |-> metric_type,
     name |-> build_metric_name(metric_name),
     suffix |-> build_tags(dflt, tags) # <<>>,
     tags |-> build_tags(dflt, tags)]

\* ---------------------------------------------------------- the aggregator

\* The object's fields, and the streams it writes, as one value.
Self ==
    [counts |-> counts, gauges |-> gauges, histograms |-> histograms,
     sets |-> sets, tag_orderings |-> tag_orderings,
     default_tags |-> default_tags, out |-> out, log |-> log]

Commit(S) ==
    /\ counts' = S.counts
    /\ gauges' = S.gauges
    /\ histograms' = S.histograms
    /\ sets' = S.sets
    /\ tag_orderings' = S.tag_orderings
    /\ out' = S.out
    /\ log' = S.log

\* len(hashable_tags) != len(user_tags)
DuplicateTags(tags) == Cardinality(Range(tags)) # Len(tags)

\* A variant that keeps the ordering first stored for a key.
StoreOrderingFirst(S, metric_name, tags) ==
    [S EXCEPT !.tag_orderings =
        DPut(DMissing(@, metric_name, <<>>), metric_name,
             DMissing(DGet(DMissing(@, metric_name, <<>>), metric_name), Range(tags), tags))]

\* A variant that stores no ordering for a call without tags.
StoreOrderingIfTagged(S, metric_name, tags) ==
    IF tags = <<>> THEN S
    ELSE [S EXCEPT !.tag_orderings =
             DPut(DMissing(@, metric_name, <<>>), metric_name,
                  DPut(DGet(DMissing(@, metric_name, <<>>), metric_name), Range(tags), tags))]

\* self.tag_orderings[metric_name][hashable_tags] = tags
StoreOrdering(S, metric_name, tags) ==
    [S EXCEPT !.tag_orderings =
        DPut2(DMissing(@, metric_name, <<>>), metric_name, Range(tags), tags)]

\* The outcome of a call: the state it leaves and the exception it raised.
Outcome(S, exc) == [self |-> S, exc |-> exc]


\* _make_aggregation_index: the duplicate check, then the ordering is stored
make_aggregation_index(S, metric_name, tags) ==
    IF DuplicateTags(tags)
    THEN Outcome(S, "ValueError")
    ELSE Outcome(StoreOrdering(S, metric_name, tags), "")

\* counts_for_metric[idx] += count, with the retry of the except branch
Merge(counter, count) ==
    IF CanAdd(counter, count)
    THEN Outcome(PyAdd(counter, count), "")
    ELSE IF CanCast(count.t, counter) /\ CanAdd(PyCast(count.t, counter), count)
    THEN Outcome(PyAdd(PyCast(count.t, counter), count), "")
    ELSE Outcome(counter, "TypeError")

incr(S, metric_name, count, tags) ==
    LET a == make_aggregation_index(S, metric_name, tags)
        idx == Range(tags)
        \* counts_for_metric = self._counts[metric_name]
        S1 == [a.self EXCEPT !.counts = DMissing(@, metric_name, <<>>)]
        \* counter = self._counts[metric_name][idx]: the bucket now exists
        S2 == [S1 EXCEPT !.counts =
                  DPut(@, metric_name, DMissing(DGet(@, metric_name), idx, IntZero))]
        m == Merge(DGet(DGet(S2.counts, metric_name), idx), count)
    IN  IF a.exc # "" THEN a
        ELSE Outcome([S2 EXCEPT !.counts = DPut2(@, metric_name, idx, m.self)], m.exc)

\* A variant that keeps the value a bucket already holds.
gaugeKeepFirst(S, metric_name, value, tags) ==
    LET S1 == [S EXCEPT !.gauges = DMissing(@, metric_name, <<>>)]
        a == make_aggregation_index(S1, metric_name, tags)
    IN  IF a.exc # "" THEN a
        ELSE Outcome([a.self EXCEPT !.gauges =
                         DPut(@, metric_name,
                              DMissing(DGet(@, metric_name), Range(tags), value))], "")

\* The target self._gauges[metric_name] is evaluated before the index.
gauge(S, metric_name, value, tags) ==
    LET S1 == [S EXCEPT !.gauges = DMissing(@, metric_name, <<>>)]
        a == make_aggregation_index(S1, metric_name, tags)
    IN  IF a.exc # "" THEN a
        ELSE Outcome([a.self EXCEPT !.gauges =
                         DPut2(@, metric_name, Range(tags), value)], "")

histogram(S, metric_name, value, tags) ==
    LET S1 == [S EXCEPT !.histograms = DMissing(@, metric_name, <<>>)]
        a == make_aggregation_index(S1, metric_name, tags)
        idx == Range(tags)
        \* defaultdict(list): a missing bucket starts as the empty list
        S2 == [a.self EXCEPT !.histograms =
                  DPut(@, metric_name, DMissing(DGet(@, metric_name), idx, <<>>))]
    IN  IF a.exc # "" THEN a
        ELSE Outcome([S2 EXCEPT !.histograms =
                         DPut2(@, metric_name, idx,
                               Append(DGet(DGet(@, metric_name), idx), value))], "")

set(S, metric_name, value, tags) ==
    LET S1 == [S EXCEPT !.sets = DMissing(@, metric_name, <<>>)]
        a == make_aggregation_index(S1, metric_name, tags)
        idx == Range(tags)
        \* defaultdict(set): a missing bucket starts as the empty set
        S2 == [a.self EXCEPT !.sets =
                  DPut(@, metric_name, DMissing(DGet(@, metric_name), idx, {}))]
    IN  IF a.exc # "" THEN a
        ELSE Outcome([S2 EXCEPT !.sets =
                         DPut2(@, metric_name, idx,
                               DGet(DGet(@, metric_name), idx) \cup {value})], "")

log_send_if_nonzero(S, n, name) ==
    IF n # 0
    THEN [S EXCEPT !.log = Append(@, [n |-> n, prefix |-> service_prefix, name |-> name])]
    ELSE S

\* ------------------------------------------------------ the flush generator

\* status: none (no generator), fresh (made, not started), suspended (at a
\* yield), done (returned), raised (ended by the exception exc).
\* phase 1..4: the four loops of flush.  n: the running count of the loop.
\* (opos, oused): the iterator over nested_aggregate.items().
\* name, (ipos, iused): the metric in hand and the iterator over its buckets.
NoGen ==
    [status |-> "none", phase |-> 0, n |-> 0, opos |-> 0, oused |-> 0,
     name |-> "", ipos |-> 0, iused |-> 0, exc |-> "", yielded |-> 0]

NewGen == [NoGen EXCEPT !.status = "fresh"]

\* A variant whose first two loops emit each other's kind.
PhaseKindSwapped == <<"gauge", "count", "set", "histogram">>

\* The kind each loop of flush emits and logs.
PhaseKind == <<"count", "gauge", "set", "histogram">>

\* The mapping each loop of flush hands to _consume_aggregate.
Aggregate(S, phase) == IF phase = 2 THEN S.gauges ELSE S.counts

SetAggregate(S, phase, d) ==
    IF phase = 2 THEN [S EXCEPT !.gauges = d] ELSE [S EXCEPT !.counts = d]

Raise(X, exc) == [X EXCEPT !.gen.status = "raised", !.gen.exc = exc]

RECURSIVE EnterPhase(_, _), OuterNext(_), InnerNext(_), RunToEnd(_)

\* n = 0, and the loop's first step makes the iterator over the mapping
EnterPhase(X, p) ==
    OuterNext([X EXCEPT !.gen.phase = p, !.gen.n = 0, !.gen.opos = 0,
                        !.gen.oused = Len(Aggregate(X.self, p))])

\* for metric_name, aggr_by_tag in nested_aggregate.items()
OuterNext(X) ==
    LET g == X.gen
        M == Aggregate(X.self, g.phase)
    IN  IF g.oused # Len(M) THEN Raise(X, "RuntimeError")
        ELSE IF g.opos >= Len(M)
        THEN \* nested_aggregate.clear(), then the loop's log line
             LET S1 == SetAggregate(X.self, g.phase, <<>>)
                 S2 == log_send_if_nonzero(S1, g.n, PhaseKind[g.phase])
             IN  IF g.phase = 4
                 THEN [self |-> S2, gen |-> [g EXCEPT !.status = "done"]]
                 ELSE EnterPhase([self |-> S2, gen |-> g], g.phase + 1)
        ELSE \* tags_mapping = self.tag_orderings[metric_name]
             LET metric_name == M[g.opos + 1][1]
                 S1 == [X.self EXCEPT !.tag_orderings = DMissing(@, metric_name, <<>>)]
             IN  InnerNext([self |-> S1,
                            gen |-> [g EXCEPT !.opos = @ + 1, !.name = metric_name,
                                              !.ipos = 0,
                                              !.iused = Len(M[g.opos + 1][2])]])

\* for hashed_tags, aggr in aggr_by_tag.items()
InnerNext(X) ==
    LET g == X.gen
        M == Aggregate(X.self, g.phase)
        aggr_by_tag == DGet(M, g.name)
    IN  IF g.iused # Len(aggr_by_tag) THEN Raise(X, "RuntimeError")
        ELSE IF g.ipos >= Len(aggr_by_tag)
        THEN \* aggr_by_tag.clear()
             OuterNext([X EXCEPT !.self = SetAggregate(X.self, g.phase, DPut(M, g.name, <<>>))])
        ELSE LET hashed_tags == aggr_by_tag[g.ipos + 1][1]
                 aggr == aggr_by_tag[g.ipos + 1][2]
                 tags_mapping == DGet(X.self.tag_orderings, g.name)
             IN  IF ~DHas(tags_mapping, hashed_tags) THEN Raise(X, "KeyError")
                 ELSE IF g.phase = 3
                 THEN \* DataDogMetrics.set
                      Raise(X, "NotImplementedError")
                 ELSE [self |-> [X.self EXCEPT !.out =
                                    Append(@, print_metric(X.self.default_tags,
                                                           PhaseKind[g.phase], g.name, aggr,
                                                           DGet(tags_mapping, hashed_tags)))],
                       gen |-> [g EXCEPT !.status = "suspended", !.ipos = @ + 1,
                                         !.n = @ + 1, !.yielded = @ + 1]]

\* next(generator)
Resume(X) == IF X.gen.status = "fresh" THEN EnterPhase(X, 1) ELSE InnerNext(X)

RunToEnd(X) == IF X.gen.status \in {"done", "raised"} THEN X ELSE RunToEnd(Resume(X))

\* flush_all: a new generator consumed to its end; n is the number of lines
flush_all(S) ==
    LET X == RunToEnd([self |-> S, gen |-> NewGen])
    IN  [self |-> X.self, exc |-> X.gen.exc, n |-> X.gen.yielded]

\* __del__
del(S) ==
    LET r == flush_all(S)
    IN  IF r.exc # "" THEN r
        ELSE [r EXCEPT !.self = log_send_if_nonzero(r.self, r.n, "total remaining")]

\* ------------------------------------------------- what the caller observed

\* The bucket a call addresses: kind, metric name and the tags as a set.
RecKey(kind, metric_name, tags) == [kind |-> kind, name |-> metric_name, key |-> Range(tags)]

\* rec maps a bucket to the calls accepted on it, oldest first.
Record(rec, k, value, tags) ==
    (k :> Append(IF k \in DOMAIN rec THEN rec[k] ELSE <<>>,
                 [value |-> value, tags |-> tags])) @@ rec

\* The buckets a nested mapping holds, as buckets of the given kind.
BucketsOf(kind, d) ==
    UNION {{[kind |-> kind, name |-> d[i][1], key |-> d[i][2][j][1]] :
                j \in DOMAIN d[i][2]} : i \in DOMAIN d}

Buckets(S) ==
    BucketsOf("count", S.counts) \cup BucketsOf("gauge", S.gauges)
        \cup BucketsOf("histogram", S.histograms) \cup BucketsOf("set", S.sets)

OrdKey(metric_name, tags) == [name |-> metric_name, key |-> Range(tags)]

NoCall == [op |-> "", kind |-> "", name |-> "", value |-> IntZero, tags |-> <<>>,
           exc |-> "", ret |-> 0]

\* The kind of the mapping a loop of flush consumes.
AggregateKind(phase) == IF phase = 2 THEN "gauge" ELSE "count"

\* The bucket whose line the generator has just yielded, if it is at a yield.
Yielded(X) ==
    IF X.gen.status = "suspended"
    THEN {[kind |-> AggregateKind(X.gen.phase), name |-> X.gen.name,
           key |-> DGet(Aggregate(X.self, X.gen.phase), X.gen.name)[X.gen.ipos][1]]}
    ELSE {}

\* s counts, for each bucket still in its mapping, the lines printed for it
\* since it was created: the buckets of Y have one more, and a bucket that
\* the drain has cleared is forgotten.
Sent(s, Y, S) ==
    [k \in {b \in DOMAIN s \cup Y : b \in Buckets(S)} |->
        (IF k \in DOMAIN s THEN s[k] ELSE 0) + (IF k \in Y THEN 1 ELSE 0)]

\* ------------------------------------------------------------------ actions

\* __init__: the default tags from stats_group, and five empty mappings
InitWith(dflt) ==
    /\ counts = <<>>
    /\ gauges = <<>>
    /\ histograms = <<>>
    /\ sets = <<>>
    /\ tag_orderings = <<>>
    /\ default_tags = dflt
    /\ out = <<>>
    /\ log = <<>>
    /\ gen = NoGen
    /\ alive = TRUE
    /\ last = NoCall
    /\ recorded = <<>>
    /\ lastTags = <<>>
    /\ drained = <<>>
    /\ buffered = {}
    /\ sent = <<>>
    /\ nops = 0
    /\ ndrains = 0

\* AggregatedDataDogMetrics('test')
Init == InitWith(<<>>)

\* The tag 'group:%s' % stats_group for the stats group "g"
GroupTag == "group:g"

\* AggregatedDataDogMetrics('test', 'g')
InitGroup == InitWith(<<GroupTag>>)

\* A recording call of the given kind with outcome r.
Recorded(kind, r, metric_name, value, tags) ==
    /\ alive
    /\ Commit(r.self)
    /\ last' = [NoCall EXCEPT !.op = "record", !.kind = kind, !.name = metric_name,
                              !.value = value, !.tags = tags, !.exc = r.exc]
    /\ nops' = nops + 1
    /\ IF r.exc = ""
       THEN /\ recorded' = Record(recorded, RecKey(kind, metric_name, tags), value, tags)
            /\ lastTags' = (OrdKey(metric_name, tags) :> tags) @@ lastTags
       ELSE UNCHANGED <<recorded, lastTags>>
    /\ UNCHANGED <<default_tags, gen, alive, drained, buffered, sent, ndrains>>

\* A recording call made while no drain is under way.
Call(kind, r, metric_name, value, tags) ==
    /\ gen.status # "suspended"
    /\ Recorded(kind, r, metric_name, value, tags)

\* A recording call made between two lines of a drain: the generator is
\* suspended at a yield.
CallDuring(kind, r, metric_name, value, tags) ==
    /\ gen.status = "suspended"
    /\ Recorded(kind, r, metric_name, value, tags)

Incr(metric_name, count, tags) ==
    Call("count", incr(Self, metric_name, count, tags), metric_name, count, tags)

Gauge(metric_name, value, tags) ==
    Call("gauge", gauge(Self, metric_name, value, tags), metric_name, value, tags)

Histogram(metric_name, value, tags) ==
    Call("histogram", histogram(Self, metric_name, value, tags), metric_name, value, tags)

SetAdd(metric_name, value, tags) ==
    Call("set", set(Self, metric_name, value, tags), metric_name, value, tags)

\* incr and gauge called between two lines of a drain
IncrDuring(metric_name, count, tags) ==
    CallDuring("count", incr(Self, metric_name, count, tags), metric_name, count, tags)

GaugeDuring(metric_name, value, tags) ==
    CallDuring("gauge", gauge(Self, metric_name, value, tags), metric_name, value, tags)

\* A drain begins: the windows on stdout and on the log restart, and what
\* was recorded so far is what this drain has to emit.
BeginDrain ==
    /\ drained' = recorded
    /\ buffered' = Buckets(Self)
    /\ recorded' = <<>>
    /\ ndrains' = ndrains + 1

Window(S) == [S EXCEPT !.out = <<>>, !.log = <<>>]

\* flush(): the generator is made; none of its code runs yet
Flush ==
    /\ alive
    /\ gen.status \in {"none", "done", "raised"}
    /\ gen' = NewGen
    /\ last' = [NoCall EXCEPT !.op = "flush"]
    /\ UNCHANGED <<counts, gauges, histograms, sets, tag_orderings, default_tags, out,
                   log, alive, recorded, lastTags, drained, buffered, sent, nops,
                   ndrains>>

\* next() on the generator: it runs to its next yield, its end or an exception
FlushNext ==
    /\ alive
    /\ gen.status \in {"fresh", "suspended"}
    /\ LET X == Resume([self |-> IF gen.status = "fresh" THEN Window(Self) ELSE Self,
                        gen |-> gen])
       IN  /\ Commit(X.self)
           /\ gen' = X.gen
           /\ last' = [NoCall EXCEPT !.op = "next", !.exc = X.gen.exc]
           /\ sent' = Sent(sent, Yielded(X), X.self)
    /\ IF gen.status = "fresh" THEN BeginDrain
       ELSE UNCHANGED <<recorded, drained, buffered, ndrains>>
    /\ UNCHANGED <<default_tags, alive, lastTags, nops>>

\* The caller drops the generator of flush() before its end: the generator
\* is closed where it stands, and no code of flush runs for it again.
Abandon ==
    /\ alive
    /\ gen.status \in {"fresh", "suspended"}
    /\ gen' = NoGen
    /\ last' = [NoCall EXCEPT !.op = "abandon"]
    /\ UNCHANGED <<counts, gauges, histograms, sets, tag_orderings, default_tags, out,
                   log, alive, recorded, lastTags, drained, buffered, sent, nops,
                   ndrains>>

FlushAll ==
    /\ alive
    /\ gen.status # "suspended"
    /\ LET r == flush_all(Window(Self))
       IN  /\ Commit(r.self)
           /\ last' = [NoCall EXCEPT !.op = "flush_all", !.exc = r.exc, !.ret = r.n]
           /\ sent' = Sent(sent, {}, r.self)
    /\ BeginDrain
    /\ UNCHANGED <<default_tags, gen, alive, lastTags, nops>>

\* The object's lifetime ends: __del__ runs, and nothing after it
Del ==
    /\ alive
    /\ gen.status # "suspended"
    /\ LET r == del(Window(Self))
       IN  /\ Commit(r.self)
           /\ last' = [NoCall EXCEPT !.op = "del", !.exc = r.exc, !.ret = r.n]
           /\ sent' = Sent(sent, {}, r.self)
    /\ alive' = FALSE
    /\ BeginDrain
    /\ UNCHANGED <<default_tags, gen, lastTags, nops>>

\* A call on the emitter itself, DataDogMetrics.incr, gauge or histogram:
\* the line is printed at once.
Emit(kind, metric_name, value, tags) ==
    /\ alive
    /\ out' = Append(out, print_metric(default_tags, kind, metric_name, value, tags))
    /\ last' = [NoCall EXCEPT !.op = "emit", !.kind = kind, !.name = metric_name,
                              !.value = value, !.tags = tags]
    /\ nops' = nops + 1
    /\ UNCHANGED <<counts, gauges, histograms, sets, tag_orderings, default_tags, log,
                   gen, alive, recorded, lastTags, drained, buffered, sent, ndrains>>

EmitterIncr(metric_name, count, tags) == Emit("count", metric_name, count, tags)

EmitterGauge(metric_name, value, tags) == Emit("gauge", metric_name, value, tags)

EmitterHistogram(metric_name, value, tags) == Emit("histogram", metric_name, value, tags)

\* DataDogMetrics.set raises before anything is printed
EmitterSet(metric_name, value, tags) ==
    /\ alive
    /\ last' = [NoCall EXCEPT !.op = "emit", !.kind = "set", !.name = metric_name,
                              !.value = value, !.tags = tags,
                              !.exc = "NotImplementedError"]
    /\ nops' = nops + 1
    /\ UNCHANGED <<counts, gauges, histograms, sets, tag_orderings, default_tags, out,
                   log, gen, alive, recorded, lastTags, drained, buffered, sent,
                   ndrains>>

\* --------------------------------------------------------------- the inputs

Names == {"m1", "m2"}

TagLists == {<<>>, <<"a">>, <<"a", "a">>}

\* 1 and None
CountValues == {Num("int", 4), Num("NoneType", 0)}

\* 3
GaugeValues == {Num("int", 12)}

\* 1
Samples == {Num("int", 4)}

Next ==
    \/ nops < MaxOps /\ \E m \in Names, t \in TagLists, c \in CountValues : Incr(m, c, t)
    \/ nops < MaxOps /\ \E m \in Names, t \in TagLists, v \in GaugeValues : Gauge(m, v, t)
    \/ nops < MaxOps /\ \E m \in Names, t \in TagLists, v \in Samples : Histogram(m, v, t)
    \/ nops < MaxOps /\ \E m \in Names, t \in TagLists, v \in Samples : SetAdd(m, v, t)
    \/ ndrains < MaxDrains /\ Flush
    \/ FlushNext
    \/ ndrains < MaxDrains /\ FlushAll
    \/ Del

Spec == Init /\ [][Next]_vars

\* The four kinds on two metrics, with and without a tag, every drain run
\* to its end before the next call.
KindsTagLists == {<<>>, <<"a">>}

NextKinds ==
    \/ nops < MaxOps /\ \E m \in Names, t \in KindsTagLists, c \in CountValues :
            Incr(m, c, t)
    \/ nops < MaxOps /\ \E m \in Names, t \in KindsTagLists, v \in GaugeValues :
            Gauge(m, v, t)
    \/ nops < MaxOps /\ \E m \in Names, t \in KindsTagLists, v \in Samples :
            Histogram(m, v, t)
    \/ nops < MaxOps /\ \E m \in Names, t \in KindsTagLists, v \in Samples :
            SetAdd(m, v, t)
    \/ ndrains < MaxDrains /\ Flush
    \/ FlushNext
    \/ ndrains < MaxDrains /\ FlushAll

SpecKinds == Init /\ [][NextKinds]_vars

\* An aggregator with a stats group; callers may pass the group tag too.
GroupTagLists == {<<>>, <<"a">>, <<GroupTag>>, <<"a", GroupTag>>}

NextGroup ==
    \/ nops < MaxOps /\ \E t \in GroupTagLists : Incr("m1", Num("int", 4), t)
    \/ nops < MaxOps /\ \E t \in GroupTagLists : Gauge("m1", Num("int", 12), t)
    \/ ndrains < MaxDrains /\ Flush
    \/ FlushNext
    \/ ndrains < MaxDrains /\ FlushAll

SpecGroup == InitGroup /\ [][NextGroup]_vars

\* Counters on one metric under the tags a and b in either order, with
\* counts 1 (int), 2.25 (float) and -1.25 (Decimal), and a gauge on the
\* same keys.
OrderedTagLists == {<<"a", "b">>, <<"b", "a">>}

MixedCounts == {Num("int", 4), Num("float", 9), Num("Decimal", -5)}

NextCounter ==
    \/ nops < MaxCalls /\ \E t \in OrderedTagLists, c \in MixedCounts : Incr("m1", c, t)
    \/ nops < MaxCalls /\ \E t \in OrderedTagLists : Gauge("m1", Num("int", 12), t)
    \/ ndrains < MaxDrains /\ Flush
    \/ FlushNext
    \/ ndrains < MaxDrains /\ FlushAll

SpecCounter == Init /\ [][NextCounter]_vars

\* Gauges set to 3 and 5 on two metrics, with and without a tag.
NextGauge ==
    \/ nops < MaxCalls /\ \E m \in Names, t \in {<<>>, <<"a">>} :
            \E v \in {Num("int", 12), Num("int", 20)} : Gauge(m, v, t)
    \/ ndrains < MaxDrains /\ Flush
    \/ FlushNext
    \/ ndrains < MaxDrains /\ FlushAll

SpecGauge == Init /\ [][NextGauge]_vars

\* Counters and gauges recorded before a drain and between two of its
\* lines: the caller holds the generator of flush() and calls incr or gauge
\* before it asks for the next line.
NextMidDrain ==
    \/ nops < MaxCalls /\ \E m \in Names, t \in KindsTagLists :
            Incr(m, Num("int", 4), t)
    \/ nops < MaxCalls /\ \E m \in Names : Gauge(m, Num("int", 12), <<>>)
    \/ nops < MaxCalls /\ \E m \in Names, t \in KindsTagLists :
            IncrDuring(m, Num("int", 4), t)
    \/ nops < MaxCalls /\ \E m \in Names : GaugeDuring(m, Num("int", 12), <<>>)
    \/ ndrains < MaxDrains /\ Flush
    \/ FlushNext

SpecMidDrain == Init /\ [][NextMidDrain]_vars

\* Counters and gauges drained by generators of flush() that the caller may
\* drop after some lines, before it calls flush() again.
NextAbandon ==
    \/ nops < MaxOps /\ \E m \in Names, t \in KindsTagLists :
            Incr(m, Num("int", 4), t)
    \/ nops < MaxOps /\ \E m \in Names : Gauge(m, Num("int", 12), <<>>)
    \/ ndrains < MaxDrains /\ Flush
    \/ FlushNext
    \/ Abandon

SpecAbandon == Init /\ [][NextAbandon]_vars

\* The emitter alone, DataDogMetrics('test') or DataDogMetrics('test', 'g'),
\* called with no tags, one tag, and two tags in either order.
InitEmitter == InitWith(<<>>) \/ InitWith(<<GroupTag>>)

EmitterTagLists == {<<>>, <<"a">>, <<"a", "b">>, <<"b", "a">>}

NextEmitter ==
    \/ nops < MaxOps /\ \E m \in Names, t \in EmitterTagLists, c \in {Num("int", 4)} :
            EmitterIncr(m, c, t)
    \/ nops < MaxOps /\ \E m \in Names, t \in EmitterTagLists, v \in GaugeValues :
            EmitterGauge(m, v, t)
    \/ nops < MaxOps /\ \E m \in Names, t \in EmitterTagLists, v \in Samples :
            EmitterHistogram(m, v, t)
    \/ nops < MaxOps /\ \E m \in Names, t \in EmitterTagLists, v \in Samples :
            EmitterSet(m, v, t)

SpecEmitter == InitEmitter /\ [][NextEmitter]_vars

\* ------------------------------------------------------ reading the state

Kinds == {"count", "gauge", "histogram", "set"}

\* The mapping that holds the buckets of a kind.
KindMap(kind) ==
    CASE kind = "count" -> counts
      [] kind = "gauge" -> gauges
      [] kind = "histogram" -> histograms
      [] kind = "set" -> sets

\* The bucket k is in its kind's mapping.
Present(k) ==
    /\ DHas(KindMap(k.kind), k.name)
    /\ DHas(DGet(KindMap(k.kind), k.name), k.key)

\* The lines of the drain's output that belong to the bucket k: its kind,
\* its name, and its tags (with the default tags) as a set.
LinesOf(k) ==
    {i \in DOMAIN out :
        /\ out[i].kind = k.kind
        /\ out[i].name = build_metric_name(k.name)
        /\ Range(out[i].tags) = k.key \cup Range(default_tags)}

\* A drain has just run to its end: flush_all or __del__ returned, or the
\* generator of flush() returned on this next().
DrainDone ==
    \/ last.op \in {"flush_all", "del"} /\ last.exc = ""
    \/ last.op = "next" /\ gen.status = "done"

LogLines(name) == {i \in DOMAIN log : log[i].name = name}

\* ------------------------------------------------------------------ claims

\* C1: after a complete drain, every bucket recorded before it (of any of
\* the four kinds, with duplicate-free tags) has exactly one emitted line
\* and is absent from the aggregator.
C1_OneLinePerBucket ==
    DrainDone =>
        \A k \in DOMAIN drained : Cardinality(LinesOf(k)) = 1 /\ ~Present(k)

\* C3: a recording call of any kind that fails on duplicate tags leaves the
\* four kind mappings and the tag-ordering mapping exactly as they were.
C3_DuplicateTagsNoMutation ==
    [][(last'.op = "record" /\ last'.exc = "ValueError" /\ nops' = nops + 1)
        => UNCHANGED <<counts, gauges, histograms, sets, tag_orderings>>]_vars

\* C5: teardown emits a line for every bucket still buffered, of any kind,
\* and when a bucket was buffered it logs the number drained as "total
\* remaining" exactly once.
C5_TeardownDrainsAll ==
    (last.op = "del") =>
        /\ \A k \in DOMAIN drained : Cardinality(LinesOf(k)) = 1
        /\ buffered # {} =>
              /\ Cardinality(LogLines("total remaining")) = 1
              /\ \A i \in LogLines("total remaining") : log[i].n = Cardinality(buffered)

\* C6: a complete flush logs, for each kind, exactly one line with the
\* number n of buckets of that kind that were buffered when n > 0, and no
\* line for that kind when n = 0.
C6_OneLogLinePerKind ==
    DrainDone =>
        \A kind \in Kinds :
            LET n == Cardinality({k \in buffered : k.kind = kind})
            IN  IF n > 0
                THEN /\ Cardinality(LogLines(kind)) = 1
                     /\ \A i \in LogLines(kind) : log[i].n = n
                ELSE LogLines(kind) = {}

\* C7: flush_all returns the number of lines the drain emitted, and that
\* number is the number of buckets buffered over the four kinds.
C7_FlushAllReturnsTotal ==
    (last.op = "flush_all" /\ last.exc = "") =>
        /\ last.ret = Len(out)
        /\ last.ret = Cardinality(buffered)

\* C8: after flush_all the four kind mappings and the tag-ordering mapping
\* all equal their value at construction, the empty mapping.
C8_ClearedByDrain ==
    (last.op = "flush_all" /\ last.exc = "") =>
        /\ counts = <<>>
        /\ gauges = <<>>
        /\ histograms = <<>>
        /\ sets = <<>>
        /\ tag_orderings = <<>>

\* The sum of the counts of the calls, in quarters.
RECURSIVE SumV(_)
SumV(calls) == IF calls = <<>> THEN 0 ELSE calls[1].value.v + SumV(Tail(calls))

LastOf(calls) == calls[Len(calls)]

\* C2: increments on one metric whose tags are equal as sets make one count
\* bucket: a complete drain emits one count line for it, whose value is the
\* sum of the counts and whose tags are in the order of the last recording
\* call on that metric and tag set.
C2_OrderIndependentSum ==
    DrainDone =>
        \A k \in DOMAIN drained :
            k.kind = "count" =>
                /\ Cardinality(LinesOf(k)) = 1
                /\ \A i \in LinesOf(k) :
                      /\ out[i].value.v = SumV(drained[k])
                      /\ out[i].tags = lastTags[[name |-> k.name, key |-> k.key]] \o default_tags

\* C2's case: a drain emitted the line of a count bucket that two increments
\* with differently ordered tags were merged into.
C2_Witness ==
    /\ DrainDone
    /\ \E k \in DOMAIN drained :
          /\ k.kind = "count"
          /\ Len(drained[k]) >= 2
          /\ drained[k][1].tags # drained[k][2].tags
          /\ LinesOf(k) # {}

\* C4: after setGauge calls on one key and a complete drain, exactly one
\* gauge line is emitted for the key, and it carries the last value set.
C4_GaugeLastWriteWins ==
    DrainDone =>
        \A k \in DOMAIN drained :
            k.kind = "gauge" =>
                /\ Cardinality(LinesOf(k)) = 1
                /\ \A i \in LinesOf(k) : out[i].value = LastOf(drained[k]).value

\* C4's case: a drained gauge that was set at least twice, first to another
\* value than the last.
C4_Witness ==
    /\ DrainDone
    /\ \E k \in DOMAIN drained :
          /\ k.kind = "gauge"
          /\ Len(drained[k]) >= 2
          /\ drained[k][1].value # LastOf(drained[k]).value
          /\ LinesOf(k) # {}

\* C9: with a stats group, the group tag is part of the tag set a call is
\* resolved to: a call whose tags with the group tag hold a duplicate is
\* rejected, two buckets of a kind and name never have the same tags once
\* the group tag is added, and every line ends with the group tag.
C9_GroupTagInKey ==
    /\ (last.op = "record" /\ DuplicateTags(last.tags \o default_tags))
          => last.exc = "ValueError"
    /\ \A k1 \in Buckets(Self), k2 \in Buckets(Self) :
          (/\ k1.kind = k2.kind
           /\ k1.name = k2.name
           /\ k1.key \cup Range(default_tags) = k2.key \cup Range(default_tags))
              => k1.key = k2.key
    /\ \A i \in DOMAIN out :
          /\ Len(out[i].tags) >= Len(default_tags)
          /\ SubSeq(out[i].tags, Len(out[i].tags) - Len(default_tags) + 1,
                    Len(out[i].tags)) = default_tags

\* The count bucket a call addressed, in a mapping.
CountAt(d, metric_name, tags) == DGet(DGet(d, metric_name), Range(tags))

HasCount(d, metric_name, tags) ==
    DHas(d, metric_name) /\ DHas(DGet(d, metric_name), Range(tags))

\* C10: the drained total of a count bucket is the exact sum of the counts
\* recorded on it, whatever their types; and an increment whose count cannot
\* be added to the stored value leaves the bucket with the count's type and
\* the sum of the two values.
C10_CoercingMerge ==
    /\ [](DrainDone =>
            \A k \in DOMAIN drained :
                k.kind = "count" =>
                    \A i \in LinesOf(k) : out[i].value.v = SumV(drained[k]))
    /\ [][(/\ last'.op = "record"
           /\ last'.kind = "count"
           /\ last'.exc = ""
           /\ nops' = nops + 1
           /\ HasCount(counts, last'.name, last'.tags)
           /\ ~CanAdd(CountAt(counts, last'.name, last'.tags), last'.value))
          => /\ CountAt(counts', last'.name, last'.tags).t = last'.value.t
             /\ CountAt(counts', last'.name, last'.tags).v =
                    CountAt(counts, last'.name, last'.tags).v + last'.value.v]_vars

\* C10's case: a drain emitted the total of a bucket that counts of all
\* three types were merged into, a float count followed by a Decimal one
\* (the addition that needs the coercion) among them.
C10_Witness ==
    /\ DrainDone
    /\ \E k \in DOMAIN drained :
          /\ k.kind = "count"
          /\ {drained[k][j].value.t : j \in DOMAIN drained[k]} = {"int", "float", "Decimal"}
          /\ \E j \in DOMAIN drained[k] :
                /\ j > 1
                /\ drained[k][j - 1].value.t = "float"
                /\ drained[k][j].value.t = "Decimal"
          /\ \E i \in LinesOf(k) : out[i].value.t = "Decimal"

\* C11: the line the emitter prints for a call carries the call's value and
\* kind and the name prefix.name; its tags are the caller's tags in the
\* order given, followed by the group tag when one is configured; and a
\* line has the tag suffix if and only if those combined tags are not empty.
C11_EmitterLine ==
    /\ (last.op = "emit" /\ last.exc = "") =>
          /\ out # <<>>
          /\ LastOf(out).value = last.value
          /\ LastOf(out).kind = last.kind
          /\ LastOf(out).name = <<service_prefix, last.name>>
          /\ LastOf(out).tags = last.tags \o default_tags
          /\ LastOf(out).suffix <=> (last.tags \o default_tags # <<>>)
    /\ \A i \in DOMAIN out : out[i].suffix <=> (out[i].tags # <<>>)

\* C11's case: an emitter with a group tag printed the line of a call that
\* gave two tags.
C11_Witness ==
    /\ last.op = "emit"
    /\ last.exc = ""
    /\ Len(last.tags) = 2
    /\ default_tags # <<>>
    /\ LastOf(out).suffix
    /\ Len(LastOf(out).tags) = 3

\* The value the bucket k holds.
BucketValue(k) == DGet(DGet(KindMap(k.kind), k.name), k.key)

\* The lines of the drain's output that belong to the bucket k, in order.
LinesSeq(k) ==
    SelectSeq(out, LAMBDA l : /\ l.kind = k.kind
                              /\ l.name = build_metric_name(k.name)
                              /\ Range(l.tags) = k.key \cup Range(default_tags))

\* The calls accepted on the bucket k in the window rec.
CallsOn(rec, k) == IF k \in DOMAIN rec THEN rec[k] ELSE <<>>

\* C12: an increment made between two lines of a drain is not lost: when
\* the first drain has run to its end, the counts accepted on a bucket
\* before and during the drain add up to what the drain's lines for the
\* bucket carry plus what the bucket still holds.
C12_NoObservationLost ==
    (last.op = "next" /\ gen.status = "done" /\ ndrains = 1) =>
        \A k \in DOMAIN recorded \cup DOMAIN drained :
            k.kind = "count" =>
                SumV(CallsOn(drained, k)) + SumV(CallsOn(recorded, k))
                    = SumV(LinesSeq(k)) + (IF Present(k) THEN BucketValue(k).v ELSE 0)

\* C13: buckets of different kinds do not interact: the line a complete
\* drain emits for a bucket carries the value made by the calls of the
\* bucket's own kind (the sum for a count, the last value for a gauge) and
\* the tags in the order of the last call of that kind on the bucket,
\* whatever was recorded under the same name and tag set in another kind.
C13_KindsDoNotInteract ==
    DrainDone =>
        \A k \in DOMAIN drained :
            \A i \in LinesOf(k) :
                /\ k.kind = "count" => out[i].value.v = SumV(drained[k])
                /\ k.kind = "gauge" => out[i].value = LastOf(drained[k]).value
                /\ out[i].tags = LastOf(drained[k]).tags \o default_tags

\* The bucket the most recent recording call addressed.
LastKey == RecKey(last.kind, last.name, last.tags)

\* C14: observations aggregate together only when kind, name and tag set
\* are equal: a recording call leaves every bucket with another kind,
\* another name or another tag set in place with its value unchanged, and
\* a call that is accepted leaves its own bucket in its kind's mapping.
C14_OtherBucketsUnchanged ==
    [][(last'.op = "record" /\ nops' = nops + 1) =>
          /\ \A k \in Buckets(Self) :
                k # LastKey' => Present(k)' /\ BucketValue(k)' = BucketValue(k)
          /\ last'.exc = "" => Present(LastKey)']_vars

\* C14's case: a call was accepted on a bucket while a bucket of the same
\* kind and name with another tag set was buffered.
C14_Witness ==
    /\ last.op = "record"
    /\ last.exc = ""
    /\ Present(LastKey)
    /\ \E k \in Buckets(Self) :
          k.kind = last.kind /\ k.name = last.name /\ k.key # LastKey.key

\* The values of the calls, in the order they were made.
ValuesOf(calls) == [j \in DOMAIN calls |-> calls[j].value]

\* C15: outside a drain, a histogram bucket holds exactly the samples
\* recorded on its key since the last drain, in recording order with
\* repetitions; and a complete drain prints one histogram line for the key
\* whose value is that whole sequence.
C15_HistogramSamples ==
    /\ gen.status # "suspended" =>
          \A k \in Buckets(Self) :
              k.kind = "histogram" => BucketValue(k) = ValuesOf(CallsOn(recorded, k))
    /\ DrainDone =>
          \A k \in DOMAIN drained :
              k.kind = "histogram" =>
                  /\ Cardinality(LinesOf(k)) = 1
                  /\ \A i \in LinesOf(k) : out[i].value = ValuesOf(drained[k])

\* The place of a kind in the order count, gauge, set, histogram.
KindRank(kind) ==
    CASE kind = "count" -> 1
      [] kind = "gauge" -> 2
      [] kind = "set" -> 3
      [] kind = "histogram" -> 4

\* C16: the lines of one drain come in the kind order count, gauge, set,
\* histogram, and every line carries the kind of the mapping that held its
\* bucket when the drain began or that it was recorded in since.
C16_KindOrder ==
    /\ \A i \in DOMAIN out, j \in DOMAIN out :
          i < j => KindRank(out[i].kind) <= KindRank(out[j].kind)
    /\ \A i \in DOMAIN out :
          \E k \in buffered \cup DOMAIN recorded :
              k.kind = out[i].kind /\ i \in LinesOf(k)

\* C16's case: a complete drain printed the line of a count bucket and then
\* the line of a gauge bucket.
C16_Witness ==
    /\ DrainDone
    /\ \E i \in DOMAIN out, j \in DOMAIN out :
          i < j /\ out[i].kind = "count" /\ out[j].kind = "gauge"

\* C17: over any sequence of flush calls, with generators dropped after
\* some of their lines, no more than one line is printed for a bucket
\* while it stays buffered: no accumulated value is emitted twice.
C17_EmittedOnce == \A k \in DOMAIN sent : sent[k] <= 1

\* C18: an increment that still fails with TypeError after the coercion
\* retry leaves the aggregator as it was: no bucket is created or altered
\* in any of the four mappings.
C18_FailedIncrNoEffect ==
    [][(/\ last'.op = "record"
        /\ last'.kind = "count"
        /\ last'.exc = "TypeError"
        /\ nops' = nops + 1)
       => UNCHANGED <<counts, gauges, histograms, sets>>]_vars

\* C19: every bucket in any of the four mappings has an entry in
\* tag_orderings under its name and tag set, the tags of that entry are,
\* as a set, the bucket's tag set, and no drain fails on the ordering lookup.
C19_OrderingForEveryBucket ==
    /\ \A k \in Buckets(Self) :
          /\ DHas(tag_orderings, k.name)
          /\ DHas(DGet(tag_orderings, k.name), k.key)
          /\ Range(DGet(DGet(tag_orderings, k.name), k.key)) = k.key
    /\ last.exc # "KeyError"
    /\ gen.exc # "KeyError"

\* C19's case: a drain has looked up the ordering of a bucket without tags
\* and printed its line while a tagged bucket is buffered.
C19_Witness ==
    /\ last.op = "next"
    /\ gen.status = "suspended"
    /\ \E k \in DOMAIN sent : k.key = {}
    /\ \E k \in Buckets(Self) : k.key # {}

====
